---- MODULE Spec2Model ----
(***************************************************************************)
(* Alert lifecycle of one PairServer (src/server.py): the detection cycle  *)
(* (_process_alerts), the dedup file (_load_alerted / _save_alerted), a    *)
(* process restart and the /api/data read of the held zone.                *)
(*                                                                         *)
(* Time is counted in units of two hours: a timestamp t stands for         *)
(* t * 7200 seconds.                                                       *)
(* Detector results are the dicts the handler reads: status, is_active and *)
(* start (start 0: the key is absent, as in the sentinels).                *)
(*                                                                         *)
(* SpecDetect: the session clock and one call of a detector                *)
(* (src/detectors), on the wall clock of one week counted in hours.        *)
(* SpecZones: the zones the three detectors cut out of a candle series.    *)
(* SpecLock: the threads of one process downloading under _YF_LOCK.        *)
(* SpecRun: one call of PairServer._run_detectors.                         *)
(* SpecMt: calls of providers.metatrader.get_df.                           *)
(***************************************************************************)
EXTENDS Integers, Sequences, FiniteSets, TLC

\* ---------------------------------------------------------------- bounds
MaxTime == 4          \* the clock stops here
MaxSdStart == 2       \* supply/demand zones start at candles 1..MaxSdStart

\* ------------------------------------------------------- program constants
TTL == 2              \* cutoff = now - 4 * 3600 seconds, i.e. two units
MaxZoneAge == 1       \* lookback: 100 one-minute candles, a window starts < 1 unit ago

\* ------------------------------------------------------------ dict helpers
EmptyDict == [k \in {} |-> 0]

Get(d, k, default) == IF k \in DOMAIN d THEN d[k] ELSE default

Del(d, k) == [x \in (DOMAIN d) \ {k} |-> d[x]]

Put(d, k, v) == [x \in (DOMAIN d) \cup {k} |-> IF x = k THEN v ELSE d[x]]

\* keys of last_alerted: name, and f"{name}_{start_ts}" per supply/demand zone
AccKey == <<"accumulation", 0>>

SdKey(start_ts) == <<"supply_demand", start_ts>>

\* ------------------------------------------------------- detector results
\* Python None (and an absent last_active_zone entry)
None == [status |-> "None", is_active |-> FALSE, start |-> 0]

Looking == [status |-> "looking", is_active |-> FALSE, start |-> 0]

Weekend == [status |-> "weekend", is_active |-> FALSE, start |-> 0]

Zone(st, ia, s) == [status |-> st, is_active |-> ia, start |-> s]

\* window starts accumulation.detect can report at time t
AccStarts(t) == {s \in 1..MaxTime : s <= t /\ s >= t - MaxZoneAge}

\* what accumulation.detect returns: None (too few candles, no session, fault),
\* the weekend and looking sentinels, an active zone, a confirmed zone
DetectResults(t) ==
    {None, Weekend, Looking}
        \cup {Zone("active", TRUE, s) : s \in AccStarts(t)}
        \cup {Zone("confirmed", FALSE, s) : s \in AccStarts(t)}

\* the tracked shape _process_alerts tests for: status "found", is_active or not
TrackedResults(t) == {Zone("found", ia, s) : ia \in BOOLEAN, s \in AccStarts(t)}

\* every accumulation result the handler distinguishes
AccResults(t) == DetectResults(t) \cup TrackedResults(t)

\* supply_demand.detect: None (the call failed or is not registered) or a dict
\* whose zones are listed newest first, one per candle, each with status
\* "active" and is_active True
SdNone == [isdict |-> FALSE, zones |-> <<>>]

SdStarts(t) == {s \in 1..MaxSdStart : s <= t}

RECURSIVE ZoneLists(_, _)
ZoneLists(n, t) ==
    IF n = 0 THEN {<<>>}
    ELSE LET rest == ZoneLists(n - 1, t)
         IN  IF n \notin SdStarts(t) THEN rest
             ELSE rest \cup {<<[start |-> n, is_active |-> TRUE]>> \o zs : zs \in rest}

SdResults(t) ==
    {SdNone} \cup {[isdict |-> TRUE, zones |-> zs] : zs \in ZoneLists(MaxSdStart, t)}

\* ------------------------------------------------------------------ state
VARIABLES
    detector,          \* config["detectors"]: the instrument's one detector
    now,               \* time.time()
    last_alerted,      \* self.last_alerted: dict key -> int
    last_active_zone,  \* self.last_active_zone: [acc: zone or None, sd_starts: set]
    file,              \* .alerted_<pair>.json: missing, complete (data) or torn
    notes,             \* notifications started by the last cycle, in order
    accIn,             \* the accumulation result the last cycle was given
    sdIn,              \* the supply_demand result the last cycle was given
    op,                \* the last step: init, cycle, crash, restart, api
    response,          \* detectors.accumulation of the last /api/data answer
    firedAt,           \* for each key of the file: when its notification started
    lastAccNote,       \* start of this run's latest accumulation notification
    hereAcc,           \* accumulation starts notified in this run, not expired
    replay,            \* 1: lastAccNote notified, 2: then reported found again,
                       \* 3: then not reported found (it broke out again)
    noteCount,         \* accumulation notifications in a row for lastAccNote
    saved,             \* at a crash: the file's dict before the save and the dict saved
    hereSd,            \* supply/demand starts notified in this run, still active
    goneSd,            \* of those, the starts that then left the active set
    backSd,            \* starts the last cycle notified again after they had left
    staleAcc,          \* accumulation starts notified in an earlier run, not expired
    staleSd            \* supply/demand starts notified in an earlier run, still active

alertVars == <<detector, now, last_alerted, last_active_zone, file, notes, accIn, sdIn,
               op, response, firedAt, lastAccNote, replay, noteCount, saved, hereAcc,
               hereSd, goneSd, backSd, staleAcc, staleSd>>

\* a detector call (src/detectors)
VARIABLES
    dow,               \* datetime.now(timezone.utc).weekday() at the last call, 0 = Monday
    hour,              \* datetime.now(timezone.utc).hour at the last call
    called,            \* the function the last call was of
    df,                \* the candle series the last detect call was given
    bias,              \* what the bias download of the last supply_demand call gave
    returned           \* what the last call returned

detectVars == <<dow, hour, called, df, bias, returned>>

\* the zones of a candle series (src/detectors)
VARIABLES
    series,            \* df: the candles, oldest first, one candle period apart
    zcalled,           \* the detector whose detect ran last on the series
    zreturned          \* the zones it returned

zoneVars == <<series, zcalled, zreturned>>

\* provider downloads (src/server.py)
VARIABLES
    yf_lock,           \* _YF_LOCK: "free" or the thread that holds it
    phase,             \* per thread: idle, acquire (waiting for the lock), download
    job                \* per thread: the function that downloads

lockVars == <<yf_lock, phase, job>>

\* one call of _run_detectors (src/server.py)
VARIABLES
    detector_names,    \* self.detector_names
    position,          \* the item of detector_names the loop is at
    cache,             \* cache: interval -> the DataFrame fetched in this cycle
    results,           \* results: name -> result
    run_state,         \* running, returned, raised
    ran,               \* the names whose detect function was called
    failed             \* the names whose fetch or detect call raised

runVars == <<detector_names, position, cache, results, run_state, ran, failed>>

\* calls of providers.metatrader.get_df
VARIABLES
    mt_lock,           \* LOCK: "free" or the caller that holds it
    mt_token,          \* _token is set
    mt_phase,          \* per caller: where it is in get_df
    attempt,           \* per caller: the attempt of the retry loop
    sent,              \* per caller: /PriceHistory requests sent by this call
    outcome            \* per caller: none, df, empty, raised

mtVars == <<mt_lock, mt_token, mt_phase, attempt, sent, outcome>>

\* ------------------------------------------------- further state
\* the PairServers of the instruments (src/server.py)
VARIABLES
    pair_state,        \* per pair_id: self.last_alerted, self.last_active_zone
    alerted_files,     \* path -> the dedup file at that path
    writers,           \* per pair_id and per path: the threads that changed it
    served             \* per pair_id: the last answer of a request handler

pairVars == <<pair_state, alerted_files, writers, served>>

\* one call of accumulation.detect inside a session (src/detectors/accumulation.py)
VARIABLES
    acc_series,        \* df: the candles, oldest first
    acc_params,        \* min_candles and lookback
    measured,          \* per window size: whether the range, slope and ADX tests pass, the choppiness tier, adx < 10, slope
    evaluated,         \* the windows df.iloc[i: i + window_size] the scan loop took
    ranked_all,        \* ranked_all: window sizes, best first
    acc_result         \* what detect returned

accVars == <<acc_series, acc_params, measured, evaluated, ranked_all, acc_result>>

\* one call of supply_demand.detect (src/detectors/supply_demand.py)
VARIABLES
    sd_call,           \* the arguments and what the bias fetch gives
    sd_visited,        \* the indices the scan loop visited
    sd_accepted,       \* of those, the indices the session filter let pass
    sd_result          \* what detect returned

sdVars == <<sd_call, sd_visited, sd_accepted, sd_result>>

\* the one-instrument application (src/app.py)
VARIABLES
    last_alerted_start, \* last_alerted_start
    alert_threads,     \* the capture_and_send_discord threads started: zone start, origin, position
    alerts_sent,       \* the zone starts whose thread went on to send the alert, in order
    app_clock          \* int(time.time())

appVars == <<last_alerted_start, alert_threads, alerts_sent, app_clock>>

\* the fair value gap scanner (src/detectors/fvg.py)
VARIABLES
    fvg_df,            \* df, the forming candle last
    fvg_lookback,      \* lookback of the last detect call, 0 before it
    fvg_checked,       \* the indices N of the triples detect evaluated, in order
    fvg_found,         \* detect's fvgs
    fvg_single         \* the last direct _check_fvg call: candle_n_idx and what it returned

fvgVars == <<fvg_df, fvg_lookback, fvg_checked, fvg_found, fvg_single>>

laterVars == <<pairVars, accVars, sdVars, appVars, fvgVars>>

\* ------------------------------------------------- all variables
vars == <<alertVars, detectVars, zoneVars, lockVars, runVars, mtVars, laterVars>>

\* what each specification leaves alone
notAlert == <<detectVars, zoneVars, lockVars, runVars, mtVars, laterVars>>

notDetect == <<alertVars, zoneVars, lockVars, runVars, mtVars, laterVars>>

notZones == <<alertVars, detectVars, lockVars, runVars, mtVars, laterVars>>

notLock == <<alertVars, detectVars, zoneVars, runVars, mtVars, laterVars>>

notRun == <<alertVars, detectVars, zoneVars, lockVars, mtVars, laterVars>>

notMt == <<alertVars, detectVars, zoneVars, lockVars, runVars, laterVars>>

\* the callers of get_df, and the threads of a PairServer process: its
\* detection loop and two request handlers of the threaded Flask app
Callers == {"caller1", "caller2"}

Threads == {"detector", "handler1", "handler2"}

\* nothing is downloading, no _run_detectors call and no get_df call is modelled
NoDownload ==
    /\ yf_lock = "free"
    /\ phase = [th \in Threads |-> "idle"]
    /\ job = [th \in Threads |-> "none"]

NoRun ==
    /\ detector_names = <<>>
    /\ position = 1
    /\ cache = EmptyDict
    /\ results = EmptyDict
    /\ run_state = "none"
    /\ ran = {}
    /\ failed = {}

NoGetDf ==
    /\ mt_lock = "free"
    /\ mt_token = FALSE
    /\ mt_phase = [c \in Callers |-> "idle"]
    /\ attempt = [c \in Callers |-> 0]
    /\ sent = [c \in Callers |-> 0]
    /\ outcome = [c \in Callers |-> "none"]

Elsewhere == NoDownload /\ NoRun /\ NoGetDf

\* no zone scan is modelled
NoScan ==
    /\ series = <<>>
    /\ zcalled = "none"
    /\ zreturned = {}

\* no detector call is modelled
NoDf == [len |-> 0, malformed |-> FALSE, scan |-> "absent", zone_type |-> "absent",
         zone_day |-> 0, gaps |-> 0]

NoCall ==
    /\ dow = 0
    /\ hour = 0
    /\ called = "none"
    /\ df = NoDf
    /\ bias = "absent"
    /\ returned = "absent"

\* ------------------------------------------- what is left alone
notPairs ==
    <<alertVars, detectVars, zoneVars, lockVars, runVars, mtVars, accVars, sdVars, appVars, fvgVars>>

notAcc ==
    <<alertVars, detectVars, zoneVars, lockVars, runVars, mtVars, pairVars, sdVars, appVars, fvgVars>>

notSd ==
    <<alertVars, detectVars, zoneVars, lockVars, runVars, mtVars, pairVars, accVars, appVars, fvgVars>>

notApp ==
    <<alertVars, detectVars, zoneVars, lockVars, runVars, mtVars, pairVars, accVars, sdVars, fvgVars>>

notFvg ==
    <<alertVars, detectVars, zoneVars, lockVars, runVars, mtVars, pairVars, accVars, sdVars, appVars>>

\* no second PairServer is modelled
NoPairs ==
    /\ pair_state = EmptyDict
    /\ alerted_files = EmptyDict
    /\ writers = EmptyDict
    /\ served = EmptyDict

\* no accumulation scan is modelled
NoAcc ==
    /\ acc_series = <<>>
    /\ acc_params = EmptyDict
    /\ measured = EmptyDict
    /\ evaluated = {}
    /\ ranked_all = <<>>
    /\ acc_result = EmptyDict

\* no supply/demand call is modelled
NoSd ==
    /\ sd_call = EmptyDict
    /\ sd_visited = {}
    /\ sd_accepted = {}
    /\ sd_result = EmptyDict

\* app.py is not modelled
NoApp ==
    /\ last_alerted_start = 0
    /\ alert_threads = <<>>
    /\ alerts_sent = <<>>
    /\ app_clock = 0

\* the scanner is not modelled
NoFvg ==
    /\ fvg_df = <<>>
    /\ fvg_lookback = 0
    /\ fvg_checked = <<>>
    /\ fvg_found = <<>>
    /\ fvg_single = <<>>

Later == NoPairs /\ NoAcc /\ NoSd /\ NoApp /\ NoFvg

\* ------------------------------------------------ end of tuples
\* -------------------------------------------------------- the dedup file
MissingFile == [state |-> "missing", data |-> EmptyDict]

TornFile == [state |-> "torn", data |-> EmptyDict]

CompleteFile(d) == [state |-> "complete", data |-> d]

\* _load_alerted: the file's dict; {} when the file is missing or json.load
\* raises (an empty or cut-off file is no JSON document)
load_alerted(f) == IF f.state = "complete" THEN f.data ELSE EmptyDict

\* The handler's working state: la, acc, sd_starts (memory), file, notes, and
\* saves (the _save_alerted calls so far), dead (the process died in a save),
\* old and new (the file's dict before that save, and the dict it was writing).
\* _save_alerted: open(file, 'w') truncates, json.dump writes. The save numbered
\* crashAt is the one the process dies in: before open() when torn is FALSE
\* (file untouched), between open() and the end of the write when torn is TRUE.
save_alerted(h, crashAt, torn) ==
    IF h.dead THEN h
    ELSE IF h.saves + 1 = crashAt
         THEN [h EXCEPT !.saves = @ + 1, !.dead = TRUE,
                        !.old = load_alerted(h.file), !.new = h.la,
                        !.file = IF torn THEN TornFile ELSE @]
         ELSE [h EXCEPT !.saves = @ + 1, !.file = CompleteFile(h.la)]

\* Thread(target=self._send_discord_alert, ...).start()
Notify(h, name, start_ts) ==
    IF h.dead THEN h
    ELSE [h EXCEPT !.notes = Append(@, [detector |-> name, start |-> start_ts])]

\* ------------------------------------------ _process_alerts, accumulation
\* the comparison turned round: prunes the fresh entries and keeps the old
Expired_flipped(la, t) == AccKey \in DOMAIN la /\ la[AccKey] > t - TTL

\* "Clean up alerted timestamps older than 4 hours"
Expired(la, t) == AccKey \in DOMAIN la /\ la[AccKey] < t - TTL

PruneAlerted(h, t, crashAt, torn) ==
    IF Expired(h.la, t)
    THEN save_alerted([h EXCEPT !.la = Del(@, AccKey)], crashAt, torn)
    ELSE h

is_active_found(zone) == zone # None /\ zone.is_active /\ zone.status = "found"

\* the elif of the breakout branch
BreakoutSeen(prev, zone) ==
    prev.status = "found"
        /\ (zone = None \/ ~zone.is_active \/ zone.status = "looking")

\* the recorded start is not looked up
already_alerted_never(la) == 0

already_alerted(la) == Get(la, AccKey, 0)

TrackZone(h, zone) ==
    IF zone.start # already_alerted(h.la) THEN [h EXCEPT !.acc = zone] ELSE h

ConfirmBreakout(h, prev, crashAt, torn) ==
    IF prev.start # already_alerted(h.la)
    THEN LET confirmed_zone == [prev EXCEPT !.status = "confirmed"]
             h1 == [h EXCEPT !.acc = confirmed_zone,
                             !.la = Put(@, AccKey, prev.start)]
         IN  Notify(save_alerted(h1, crashAt, torn), "accumulation", prev.start)
    ELSE h

AccumulationBranch(h, result, t, crashAt, torn) ==
    LET h1 == PruneAlerted(h, t, crashAt, torn)
        prev == h1.acc
        zone == result
    IN  IF h1.dead THEN h1
        ELSE IF is_active_found(zone) THEN TrackZone(h1, zone)
        ELSE IF BreakoutSeen(prev, zone) THEN ConfirmBreakout(h1, prev, crashAt, torn)
        ELSE IF prev.status = "confirmed" THEN [h1 EXCEPT !.acc = None]
        ELSE h1

\* ----------------------------------------- _process_alerts, supply/demand
curr_active(zones) == {zones[i].start : i \in {j \in DOMAIN zones : zones[j].is_active}}

\* the difference taken the wrong way round
Invalidated_swapped(prev_starts, active) == active \ prev_starts

\* prev_starts - curr_active
Invalidated(prev_starts, active) == prev_starts \ active

\* "Remove invalidated zones from last_alerted so they can re-fire if they return"
RECURSIVE RemoveKeys(_, _)
RemoveKeys(la, starts) ==
    IF starts = {} THEN la
    ELSE LET s == CHOOSE x \in starts : TRUE
         IN  RemoveKeys(Del(la, SdKey(s)), starts \ {s})

RemoveInvalidated(h, invalidated, crashAt, torn) ==
    LET changed == \E s \in invalidated : SdKey(s) \in DOMAIN h.la
    IN  IF changed
        THEN save_alerted([h EXCEPT !.la = RemoveKeys(@, invalidated)], crashAt, torn)
        ELSE h

\* the record is not looked up
Recorded_never(la, start_ts) == FALSE

\* if self.last_alerted.get(alert_key): continue
Recorded(la, start_ts) == Get(la, SdKey(start_ts), 0) # 0

\* "Alert only once per zone (keyed by start timestamp)": one zone of the loop
AlertZone(h, z, crashAt, torn) ==
    IF h.dead \/ ~z.is_active \/ Recorded(h.la, z.start) THEN h
    ELSE Notify(save_alerted([h EXCEPT !.la = Put(@, SdKey(z.start), 1)], crashAt, torn),
                "supply_demand", z.start)

RECURSIVE AlertZones(_, _, _, _, _)
AlertZones(h, zones, i, crashAt, torn) ==
    IF i > Len(zones) THEN h
    ELSE AlertZones(AlertZone(h, zones[i], crashAt, torn), zones, i + 1, crashAt, torn)

SupplyDemandBranch(h, result, crashAt, torn) ==
    IF h.dead \/ ~result.isdict THEN h
    ELSE LET active == curr_active(result.zones)
             h1 == RemoveInvalidated(h, Invalidated(h.sd_starts, active), crashAt, torn)
             h2 == AlertZones(h1, result.zones, 1, crashAt, torn)
         IN  IF h2.dead THEN h2 ELSE [h2 EXCEPT !.sd_starts = active]

\* _process_alerts over {name: result} at time t. Every instrument of PAIRS is
\* configured with one detector, so detector_results has one item.
process_alerts(name, result, t, crashAt, torn) ==
    LET h0 == [la |-> last_alerted, acc |-> last_active_zone.acc,
               sd_starts |-> last_active_zone.sd_starts, file |-> file,
               notes |-> <<>>, saves |-> 0, dead |-> FALSE,
               old |-> EmptyDict, new |-> EmptyDict]
    IN  IF name = "accumulation" THEN AccumulationBranch(h0, result, t, crashAt, torn)
        ELSE IF name = "supply_demand" THEN SupplyDemandBranch(h0, result, crashAt, torn)
        ELSE h0

\* the results _run_detectors can hand over for detector name at time t
Results(name, t) == IF name = "accumulation" THEN AccResults(t) ELSE SdResults(t)

\* --------------------------------------------------------- bookkeeping
Noted(ns, name) == {ns[i].start : i \in {j \in DOMAIN ns : ns[j].detector = name}}

CountNotes(ns, name, s) ==
    Cardinality({i \in DOMAIN ns : ns[i].detector = name /\ ns[i].start = s})

NoteKeys(ns) ==
    {AccKey : s \in Noted(ns, "accumulation")} \cup {SdKey(s) : s \in Noted(ns, "supply_demand")}

\* accumulation starts older than the TTL at time t
Old(t) == {s \in 1..MaxTime : s < t - TTL}

\* supply/demand starts that are not active in result rs
Gone(rs) == IF rs.isdict THEN (1..MaxSdStart) \ curr_active(rs.zones) ELSE {}

Bookkeeping(h, ra, rs, t) ==
    /\ lastAccNote' = IF Noted(h.notes, "accumulation") = {} THEN lastAccNote
                      ELSE CHOOSE s \in Noted(h.notes, "accumulation") : TRUE
    /\ noteCount' = IF Noted(h.notes, "accumulation") = {} THEN noteCount
                    ELSE IF lastAccNote' = lastAccNote THEN noteCount + 1
                    ELSE 1
    /\ replay' = IF Noted(h.notes, "accumulation") # {} THEN 1
                 ELSE IF replay = 1 /\ is_active_found(ra) /\ ra.start = lastAccNote THEN 2
                 ELSE IF replay = 2 /\ ~is_active_found(ra) THEN 3
                 ELSE replay
    /\ saved' = [old |-> h.old, new |-> h.new]
    /\ goneSd' = (goneSd \cup (hereSd \cap Gone(rs))) \ Noted(h.notes, "supply_demand")
    /\ backSd' = goneSd \cap Noted(h.notes, "supply_demand")
    /\ hereAcc' = (hereAcc \ Old(t)) \cup Noted(h.notes, "accumulation")
    /\ staleAcc' = staleAcc \ Old(t)
    /\ hereSd' = (hereSd \ Gone(rs)) \cup Noted(h.notes, "supply_demand")
    /\ staleSd' = staleSd \ Gone(rs)
    /\ firedAt' = [k \in DOMAIN load_alerted(h.file) |->
                     IF k \in NoteKeys(h.notes) THEN t ELSE Get(firedAt, k, 0)]

\* ---------------------------------------------------------------- actions
\* the state of a PairServer after construction, but for its detector
Constructed ==
    /\ file = MissingFile
    /\ last_alerted = load_alerted(MissingFile)
    /\ last_active_zone = [acc |-> None, sd_starts |-> {}]
    /\ notes = <<>>
    /\ accIn = None
    /\ sdIn = SdNone
    /\ op = "init"
    /\ response = None
    /\ firedAt = EmptyDict
    /\ lastAccNote = 0
    /\ replay = 0
    /\ noteCount = 0
    /\ saved = [old |-> EmptyDict, new |-> EmptyDict]
    /\ hereAcc = {}
    /\ hereSd = {}
    /\ goneSd = {}
    /\ backSd = {}
    /\ staleAcc = {}
    /\ staleSd = {}

Init ==
    /\ detector \in {"accumulation", "supply_demand"}
    /\ now = 1
    /\ Constructed
    /\ NoCall
    /\ NoScan
    /\ Elsewhere
    /\ Later

\* no PairServer is modelled
NoServer ==
    /\ detector = "none"
    /\ now = 0
    /\ Constructed

\* ------------------------------------ one specification at a time
OnlyPairs == NoServer /\ NoCall /\ NoScan /\ Elsewhere /\ NoAcc /\ NoSd /\ NoApp /\ NoFvg

OnlyAcc == NoServer /\ NoCall /\ NoScan /\ Elsewhere /\ NoPairs /\ NoSd /\ NoApp /\ NoFvg

OnlySd == NoServer /\ NoCall /\ NoScan /\ Elsewhere /\ NoPairs /\ NoAcc /\ NoApp /\ NoFvg

OnlyApp == NoServer /\ NoCall /\ NoScan /\ Elsewhere /\ NoPairs /\ NoAcc /\ NoSd /\ NoFvg

OnlyFvg == NoServer /\ NoCall /\ NoScan /\ Elsewhere /\ NoPairs /\ NoAcc /\ NoSd /\ NoApp

\* ------------------------------------------- the alert lifecycle
\* one pass of _detection_loop: _run_detectors, then _process_alerts
DetectionCycle ==
    /\ op # "crash"
    /\ \E dt \in {0, 1} :
         /\ now + dt <= MaxTime
         /\ \E r \in Results(detector, now + dt) :
              LET h == process_alerts(detector, r, now + dt, 0, FALSE)
              IN  /\ now' = now + dt
                  /\ last_alerted' = h.la
                  /\ last_active_zone' = [acc |-> h.acc, sd_starts |-> h.sd_starts]
                  /\ file' = h.file
                  /\ notes' = h.notes
                  /\ accIn' = IF detector = "accumulation" THEN r ELSE None
                  /\ sdIn' = IF detector = "supply_demand" THEN r ELSE SdNone
                  /\ op' = "cycle"
                  /\ Bookkeeping(h, accIn', sdIn', now + dt)
    /\ response' = None
    /\ UNCHANGED <<detector, notAlert>>

\* a pass of _detection_loop in which the process dies in a _save_alerted call
CrashInSave ==
    /\ op # "crash"
    /\ \E dt \in {0, 1} :
         /\ now + dt <= MaxTime
         /\ \E r \in Results(detector, now + dt) :
              \E crashAt \in 1..process_alerts(detector, r, now + dt, 0, FALSE).saves,
                 torn \in BOOLEAN :
                 LET h == process_alerts(detector, r, now + dt, crashAt, torn)
                 IN  /\ h.dead
                     /\ now' = now + dt
                     /\ file' = h.file
                     /\ notes' = h.notes
                     /\ accIn' = IF detector = "accumulation" THEN r ELSE None
                     /\ sdIn' = IF detector = "supply_demand" THEN r ELSE SdNone
                     /\ Bookkeeping(h, accIn', sdIn', now + dt)
    /\ last_alerted' = EmptyDict
    /\ last_active_zone' = [acc |-> None, sd_starts |-> {}]
    /\ op' = "crash"
    /\ response' = None
    /\ UNCHANGED <<detector, notAlert>>

\* the process starts (again): PairServer.__init__
Restart ==
    /\ \E dt \in 0..MaxTime :
         /\ now + dt <= MaxTime
         /\ now' = now + dt
         /\ staleAcc' = (staleAcc \cup hereAcc) \ Old(now + dt)
    /\ last_alerted' = load_alerted(file)
    /\ last_active_zone' = [acc |-> None, sd_starts |-> {}]
    /\ notes' = <<>>
    /\ accIn' = None
    /\ sdIn' = SdNone
    /\ op' = "restart"
    /\ response' = None
    /\ lastAccNote' = 0
    /\ replay' = 0
    /\ noteCount' = 0
    /\ saved' = [old |-> EmptyDict, new |-> EmptyDict]
    /\ hereAcc' = {}
    /\ hereSd' = {}
    /\ goneSd' = {}
    /\ backSd' = {}
    /\ staleSd' = staleSd \cup hereSd
    /\ UNCHANGED <<detector, file, firedAt, notAlert>>

\* what /api/data answers when no confirmed zone is held: the fresh result
Fresh == [status |-> "fresh", is_active |-> FALSE, start |-> 0]

\* GET /api/data: the held confirmed zone overrides the fresh detector result
api_data(held) == IF held # None /\ held.status = "confirmed" THEN held ELSE Fresh

ApiData ==
    /\ op # "crash"
    /\ detector = "accumulation"
    /\ response' = api_data(last_active_zone.acc)
    /\ op' = "api"
    /\ UNCHANGED <<detector, now, last_alerted, last_active_zone, file, notes, accIn,
                   sdIn, firedAt, lastAccNote, replay, noteCount, saved, hereAcc,
                   hereSd, goneSd, backSd, staleAcc, staleSd, notAlert>>

Next == DetectionCycle \/ CrashInSave \/ Restart \/ ApiData

Spec == Init /\ [][Next]_vars

\* ---------------------------------------------------------------- claims
Acc == detector = "accumulation"

Sd == detector = "supply_demand"

\* C1: when accumulation.detect reports a zone with status active in one cycle
\* and the same zone (same start) with status confirmed in the next, and that
\* start is not recorded in last_alerted, the second cycle emits exactly one
\* notification and records the zone start as alerted.
C1_ActiveThenConfirmedNotifies ==
    [][(/\ Acc /\ op = "cycle" /\ op' = "cycle"
        /\ accIn \in DetectResults(now) /\ accIn.status = "active"
        /\ accIn' \in DetectResults(now') /\ accIn'.status = "confirmed"
        /\ accIn'.start = accIn.start
        /\ already_alerted(last_alerted) # accIn.start)
       => (/\ notes' = <<[detector |-> "accumulation", start |-> accIn.start]>>
           /\ Get(last_alerted', AccKey, 0) = accIn.start
           /\ Get(load_alerted(file'), AccKey, 0) = accIn.start)]_vars

C4_NoRefireAfterRestart ==
    op = "cycle" => /\ Noted(notes, "accumulation") \cap staleAcc = {}
                    /\ Noted(notes, "supply_demand") \cap staleSd = {}

\* C5: after a crash in _save_alerted the next _load_alerted returns the complete
\* previous map or the complete new map.
C5_SaveIsAtomic ==
    op = "crash" => load_alerted(file) \in {saved.old, saved.new}

C8_OncePerActiveZone ==
    [][(Sd /\ op' = "cycle" /\ sdIn'.isdict)
       => \A s \in 1..MaxSdStart :
            LET active == s \in curr_active(sdIn'.zones)
                had == SdKey(s) \in DOMAIN last_alerted
                n == CountNotes(notes', "supply_demand", s)
            IN  /\ (active /\ ~had) => /\ n = 1
                                       /\ SdKey(s) \in DOMAIN last_alerted'
                                       /\ SdKey(s) \in DOMAIN load_alerted(file')
                /\ (had \/ ~active) => n = 0
                /\ (active /\ op = "cycle" /\ sdIn.isdict
                           /\ s \in curr_active(sdIn.zones)) => n = 0]_vars

\* a zone notified earlier in this run is active again and not notified again
C8_StaysActive ==
    /\ Sd /\ op = "cycle" /\ sdIn.isdict /\ notes = <<>>
    /\ \E s \in hereSd : s \in curr_active(sdIn.zones)

HourOfWeek(d, h) == d * 24 + h

\* accumulation.is_weekend_halt, on weekday d (0 = Monday) and hour h
is_weekend_halt(d, h) ==
    IF d = 4 /\ h >= 23 THEN TRUE
    ELSE IF d = 5 THEN TRUE
    ELSE IF d = 6 /\ h < 22 THEN TRUE
    ELSE FALSE

\* Date.getUTCDay(): 0 = Sunday
getUTCDay(d) == (d + 1) % 7

\* mission_control.isWeekendHalt
isWeekendHalt(d, h) ==
    LET jsdow == getUTCDay(d)
    IN  IF jsdow = 5 /\ h >= 23 THEN TRUE
        ELSE IF jsdow = 6 THEN TRUE
        ELSE IF jsdow = 0 /\ h < 1 THEN TRUE
        ELSE FALSE

SESSION_WINDOWS == [asian |-> <<1, 7>>, london |-> <<8, 12>>, new_york |-> <<13, 19>>]

\* the window's last hour taken as part of it
InWindow_closed(w, h) == w[1] <= h /\ h <= w[2]

\* SESSION_WINDOWS[name][0] <= hour < SESSION_WINDOWS[name][1]
InWindow(w, h) == w[1] <= h /\ h < w[2]

get_current_session(d, h) ==
    IF is_weekend_halt(d, h) THEN "None"
    ELSE IF InWindow(SESSION_WINDOWS.new_york, h) THEN "new_york"
    ELSE IF InWindow(SESSION_WINDOWS.london, h) THEN "london"
    ELSE IF InWindow(SESSION_WINDOWS.asian, h) THEN "asian"
    ELSE "None"

\* ------------------------------------------------------------ detect calls
MinCandles == 20       \* min_candles of the accumulation instruments
SdMinCandles == 10     \* supply_demand.detect: if len(df) < 10
FvgMinCandles == 4     \* fvg.detect scans range(len(df) - 2, 1, -1)
MaxAgeDays == 3        \* max_age_days of the supply/demand instruments

Detectors == {"accumulation", "supply_demand", "fvg"}

\* What a detect call reads of its candle series: len(df); malformed, a series
\* the column conversion or the arithmetic raises on; scan, what the window scan
\* of accumulation.detect finds (no qualifying window, the best candidate with
\* the breakout candle inside it, outside it with a body no larger than the
\* average, outside it with a larger body); zone_type and zone_day, the
\* untouched indecision/impulse pair of the series, if any; gaps, the number of
\* valid fair-value gaps in the scanned range.
Scans == {"no_window", "inside", "broke_weak", "broke_impulsive"}

AccDfs ==
    {x \in {[NoDf EXCEPT !.len = n, !.malformed = m, !.scan = s] :
               n \in {0, MinCandles + 3, MinCandles + 4}, m \in BOOLEAN, s \in Scans} :
        (x.len < MinCandles + 4 \/ x.malformed) => x.scan = "no_window"}

\* the candidate indecision candle of a series is the candle at london open
ZoneTs(day) == day * 24 + SESSION_WINDOWS.london[1]

\* the days a candle of a series fetched at hour-of-week t can be of
ZoneDays(t) ==
    {d \in (0 - MaxAgeDays - 2)..6 : ZoneTs(d) <= t /\ ZoneTs(d) >= t - (MaxAgeDays + 1) * 24}

SdDfs(t) ==
    {[NoDf EXCEPT !.len = n, !.malformed = m] : n \in {0, SdMinCandles}, m \in BOOLEAN}
        \cup {[NoDf EXCEPT !.len = SdMinCandles, !.zone_type = zt, !.zone_day = zd] :
                 zt \in {"demand", "supply"}, zd \in ZoneDays(t)}

FvgDfs ==
    {[NoDf EXCEPT !.len = n, !.malformed = m] : n \in {0, FvgMinCandles}, m \in BOOLEAN}
        \cup {[NoDf EXCEPT !.len = FvgMinCandles, !.gaps = 1]}

\* return values: None, a sentinel or zone dict of accumulation.detect (status),
\* the dict of supply_demand.detect (bias, zones), the dict of fvg.detect (fvgs)
ReturnsNone == [status |-> "None", bias |-> "absent", zones |-> 0]

Sentinel(st) == [status |-> st, bias |-> "absent", zones |-> 0]

ZoneResult(st) == [status |-> st, bias |-> "absent", zones |-> 1]

SdResult(b, n) == [status |-> "absent", bias |-> b, zones |-> n]

FvgResult(n) == [status |-> "absent", bias |-> "absent", zones |-> n]

\* accumulation.detect(df, ...) at weekday d, hour h
accumulation_detect(d, h, x) ==
    IF is_weekend_halt(d, h) THEN Sentinel("weekend")
    ELSE IF x.len < MinCandles + 4 THEN ReturnsNone
    ELSE IF x.malformed THEN ReturnsNone
    ELSE IF get_current_session(d, h) = "None" THEN ReturnsNone
    ELSE IF x.scan = "no_window" THEN Sentinel("looking")
    ELSE IF x.scan = "inside" THEN ZoneResult("active")
    ELSE IF x.scan = "broke_weak" THEN Sentinel("looking")
    ELSE ZoneResult("confirmed")

\* supply_demand.detect(df, ticker, ...) at weekday d, hour h, when the bias
\* download gives b (misaligned also when the download fails)
supply_demand_detect(d, h, x, b) ==
    IF b = "misaligned" THEN SdResult("misaligned", 0)
    ELSE IF x.len < SdMinCandles THEN SdResult(b, 0)
    ELSE IF x.malformed THEN SdResult("misaligned", 0)
    ELSE LET look_for == IF b = "bullish" THEN "demand" ELSE "supply"
             cutoff_ts == HourOfWeek(d, h) - MaxAgeDays * 24
             kept == /\ x.zone_type = look_for
                     /\ ~(ZoneTs(x.zone_day) < cutoff_ts)
         IN  SdResult(b, IF kept THEN 1 ELSE 0)

\* fvg.detect(df, ...)
fvg_detect(x) == IF x.malformed THEN FvgResult(0) ELSE FvgResult(x.gaps)

\* ---------------------------------------------------------------- actions
InitDetect ==
    /\ dow \in 0..6
    /\ hour \in 0..23
    /\ called = "none"
    /\ df = NoDf
    /\ bias = "absent"
    /\ returned = "absent"
    /\ NoServer
    /\ NoScan
    /\ Elsewhere
    /\ Later

\* the wall clock moves on by dt hours, up to Sunday 23:00
Passes(dt) ==
    /\ HourOfWeek(dow, hour) + dt <= HourOfWeek(6, 23)
    /\ dow' = (HourOfWeek(dow, hour) + dt) \div 24
    /\ hour' = (HourOfWeek(dow, hour) + dt) % 24

CallIsWeekendHalt ==
    /\ \E dt \in {0, 1} : Passes(dt)
    /\ called' = "is_weekend_halt"
    /\ returned' = is_weekend_halt(dow', hour')
    /\ df' = NoDf
    /\ bias' = "absent"
    /\ UNCHANGED notDetect

CallJsIsWeekendHalt ==
    /\ \E dt \in {0, 1} : Passes(dt)
    /\ called' = "isWeekendHalt"
    /\ returned' = isWeekendHalt(dow', hour')
    /\ df' = NoDf
    /\ bias' = "absent"
    /\ UNCHANGED notDetect

CallGetCurrentSession ==
    /\ \E dt \in {0, 1} : Passes(dt)
    /\ called' = "get_current_session"
    /\ returned' = get_current_session(dow', hour')
    /\ df' = NoDf
    /\ bias' = "absent"
    /\ UNCHANGED notDetect

CallAccumulation ==
    /\ \E dt \in {0, 1} : Passes(dt)
    /\ called' = "accumulation"
    /\ df' \in AccDfs
    /\ bias' = "absent"
    /\ returned' = accumulation_detect(dow', hour', df')
    /\ UNCHANGED notDetect

\* the series is a new one, or the one of the last supply_demand call again
CallSupplyDemand ==
    /\ \E dt \in {0, 1} : Passes(dt)
    /\ called' = "supply_demand"
    /\ df' \in SdDfs(HourOfWeek(dow', hour'))
                 \cup (IF called = "supply_demand" THEN {df} ELSE {})
    /\ bias' \in {"bullish", "bearish", "misaligned"}
    /\ returned' = supply_demand_detect(dow', hour', df', bias')
    /\ UNCHANGED notDetect

CallFvg ==
    /\ \E dt \in {0, 1} : Passes(dt)
    /\ called' = "fvg"
    /\ df' \in FvgDfs
    /\ bias' = "absent"
    /\ returned' = fvg_detect(df')
    /\ UNCHANGED notDetect

NextDetect ==
    \/ CallIsWeekendHalt
    \/ CallJsIsWeekendHalt
    \/ CallGetCurrentSession
    \/ CallAccumulation
    \/ CallSupplyDemand
    \/ CallFvg

SpecDetect == InitDetect /\ [][NextDetect]_vars

\* ---------------------------------------------------------------- claims
\* C11: is_weekend_halt is true exactly from Friday 23:00 through Monday 01:00
\* UTC, all of Saturday and Sunday included, and false at every other
\* (weekday, hour).
C11_HaltFridayToMonday ==
    called \in {"is_weekend_halt", "isWeekendHalt"}
        => (returned <=> \/ dow = 4 /\ hour >= 23
                         \/ dow \in {5, 6}
                         \/ dow = 0 /\ hour < 1)

\* C12 as stated: asian for hours 01 to 07, london for 08 to 12, new_york for 13
\* to 19, no session for every other hour and during the weekend halt.
C12_SessionByHourClosed ==
    called = "get_current_session"
        => returned = IF (dow = 4 /\ hour >= 23) \/ dow \in {5, 6} \/ (dow = 0 /\ hour < 1)
                      THEN "None"
                      ELSE IF hour \in 1..7 THEN "asian"
                      ELSE IF hour \in 8..12 THEN "london"
                      ELSE IF hour \in 13..19 THEN "new_york"
                      ELSE "None"

\* C12 as amended: asian for hours 01 to 06, london for 08 to 11, new_york for
\* 13 to 18 (each window ends before its last hour), no session for every other
\* hour and from Friday 23:00 through Monday 01:00.
C12_SessionByHourHalfOpen ==
    called = "get_current_session"
        => returned = IF (dow = 4 /\ hour >= 23) \/ dow \in {5, 6} \/ (dow = 0 /\ hour < 1)
                      THEN "None"
                      ELSE IF hour \in 1..6 THEN "asian"
                      ELSE IF hour \in 8..11 THEN "london"
                      ELSE IF hour \in 13..18 THEN "new_york"
                      ELSE "None"

\* on a Wednesday at 12:00 there is no session: london has ended
C12_LondonEnded ==
    called = "get_current_session" /\ dow = 2 /\ hour = 12 /\ returned = "None"

\* C13: whenever the weekend halt is in effect, accumulation.detect,
\* supply_demand.detect and fvg.detect each return the weekend sentinel,
\* whatever the candle series.
C13_WeekendSentinel ==
    (called \in Detectors /\ is_weekend_halt(dow, hour))
        => returned = Sentinel("weekend")

\* the conditions of C14 that hold of a call of accumulation.detect
Conds(x, d, h) ==
    (IF is_weekend_halt(d, h) THEN {"weekend"} ELSE {})
        \cup (IF x.len < MinCandles + 4 THEN {"insufficient"} ELSE {})
        \cup (IF ~is_weekend_halt(d, h) /\ get_current_session(d, h) = "None"
              THEN {"none"} ELSE {})
        \cup (IF x.malformed THEN {"fault"} ELSE {})
        \cup (IF /\ ~is_weekend_halt(d, h) /\ get_current_session(d, h) # "None"
                 /\ x.len >= MinCandles + 4 /\ ~x.malformed
                 /\ x.scan \in {"no_window", "broke_weak"}
              THEN {"looking"} ELSE {})

\* C14: two calls of accumulation.detect under different conditions (too few
\* candles, no session, weekend halt, nothing found, an internal fault) return
\* different values.
C14_ConditionsDistinguishable ==
    [][(/\ called = "accumulation" /\ called' = "accumulation"
        /\ Conds(df, dow, hour) # {} /\ Conds(df', dow', hour') # {}
        /\ Conds(df, dow, hour) \cap Conds(df', dow', hour') = {})
       => returned' # returned]_vars

\* C15: two calls in a row of the same detector with the same candle series
\* return the same result, however much time passed between them.
C15_ResultDependsOnArguments ==
    [][(called \in Detectors /\ called' = called /\ df' = df)
       => returned' = returned]_vars

\* ============================================================= SpecZones
\* ------------------------------------------------------------------ bound
MaxPrice == 2          \* prices are 1..MaxPrice

\* ------------------------------------------------------- program constants
MaxZones == 5          \* max_zones of the supply/demand instruments
FvgLookback == 80      \* DEFAULT_LOOKBACK

\* ----------------------------------------------------------- candle series
Max(a, b) == IF a >= b THEN a ELSE b

Min(a, b) == IF a <= b THEN a ELSE b

Abs(a) == IF a >= 0 THEN a ELSE 0 - a

\* OHLC candles: the body lies within the wicks
Candles ==
    {c \in [open : 1..MaxPrice, high : 1..MaxPrice, low : 1..MaxPrice, close : 1..MaxPrice] :
        c.low <= Min(c.open, c.close) /\ Max(c.open, c.close) <= c.high}

\* the series the detectors are given: n candles, a and b in turn, of which the
\* last closed candle is c and the forming one a
SeriesLens == {4, 6, 10}

SeriesOf(n, a, b, c) ==
    [k \in 1..n |-> IF k = n - 1 THEN c
                    ELSE IF k = n \/ (n - k) % 2 = 1 THEN a
                    ELSE b]

AllSeries == {SeriesOf(n, a, b, c) : n \in SeriesLens, a \in Candles, b \in Candles, c \in Candles}

\* df.iloc[i], i counted from 0
At(s, i) == s[i + 1]

\* int(df.index[i].timestamp()) of one-minute candles
index_ts(i) == (i + 1) * 60

\* --------------------------------------------------- accumulation.detect
\* np.maximum(opens, closes), np.minimum(opens, closes)
body_high(c) == Max(c.open, c.close)

body_low(c) == Min(c.open, c.close)

\* float(body_highs.max()), float(body_lows.min()) of window [i, i + size)
h_max(s, i, size) ==
    CHOOSE p \in {body_high(At(s, k)) : k \in i..(i + size - 1)} :
        \A k \in i..(i + size - 1) : p >= body_high(At(s, k))

l_min(s, i, size) ==
    CHOOSE p \in {body_low(At(s, k)) : k \in i..(i + size - 1)} :
        \A k \in i..(i + size - 1) : p <= body_low(At(s, k))

\* np.abs(closes - opens) summed over window [i, i + size)
RECURSIVE SumBodies(_, _, _)
SumBodies(s, i, size) ==
    IF size = 0 THEN 0
    ELSE Abs(At(s, i).close - At(s, i).open) + SumBodies(s, i + 1, size - 1)

\* where the window of window_size candles starts: it ends at last_accum_idx
WindowStart(n, window_size) == (n - 3) - window_size + 1

\* the window sizes of the scan loop that are not skipped for their position
ScannedSizes(n, min_candles, lookback) ==
    {window_size \in min_candles..lookback :
        LET i == WindowStart(n, window_size)
        IN  ~(i < 0 \/ i < Max(0, n - lookback))}

\* the zone dict of a window with the top and the bottom the wrong way round
AccZone_upside_down(s, window_size, role) ==
    LET i == WindowStart(Len(s), window_size)
    IN  [kind |-> "accumulation", role |-> role,
         top |-> l_min(s, i, window_size), bottom |-> h_max(s, i, window_size),
         start |-> index_ts(i), end |-> index_ts(i + window_size - 1)]

\* the zone dict of a window
AccZone(s, window_size, role) ==
    LET i == WindowStart(Len(s), window_size)
    IN  [kind |-> "accumulation", role |-> role,
         top |-> h_max(s, i, window_size), bottom |-> l_min(s, i, window_size),
         start |-> index_ts(i), end |-> index_ts(i + window_size - 1)]

\* The zreturned accumulation.detect returns in session for series s: candidate is
\* the window size ranked first and secondary the one ranked second among the
\* windows that pass the range, slope, ADX and choppiness tests (0: none does).
\* A candidate the breakout candle's body lies inside is returned active; one it
\* broke out of is returned confirmed if the body is larger than the window's
\* average body, and not returned (looking) otherwise.
accumulation_zones(s, min_candles, candidate, secondary) ==
    IF Len(s) < min_candles + 4 \/ candidate = 0 THEN {}
    ELSE LET n == Len(s)
             bo == At(s, n - 2)
             bo_body_size == Abs(bo.close - bo.open)
             zone == AccZone(s, candidate, "candidate")
             is_active == body_low(bo) >= zone.bottom /\ body_high(bo) <= zone.top
             broke_up == body_high(bo) > zone.top
             broke_down == body_low(bo) < zone.bottom
             \* bo_body_size > avg_body, avg_body the mean body of the window
             is_impulsive ==
                 bo_body_size * candidate > SumBodies(s, WindowStart(n, candidate), candidate)
             both == {zone} \cup (IF secondary = 0 THEN {}
                                  ELSE {AccZone(s, secondary, "secondary")})
         IN  IF is_active THEN both
             ELSE IF ~broke_up /\ ~broke_down THEN both
             ELSE IF ~is_impulsive THEN {}
             ELSE both

\* -------------------------------------------------- supply_demand.detect
\* The zreturned supply_demand.detect returns under an aligned bias for series s:
\* qualifying is the set of indices whose candle passes the age, session,
\* indecision, impulse, direction and touch tests. The scan runs from
\* len(df) - 3 down to 1 and stops at max_zones zones.
supply_demand_zones(s, qualifying) ==
    IF Len(s) < SdMinCandles THEN {}
    ELSE LET n == Len(s)
             scanned == {i \in 1..(n - 3) : i \in qualifying}
             kept == {i \in scanned : Cardinality({j \in scanned : j > i}) < MaxZones}
         IN  {[kind |-> "supply_demand", role |-> "zone",
               top |-> At(s, i).high, bottom |-> At(s, i).low,
               start |-> index_ts(i), end |-> index_ts(n - 1)] : i \in kept}

\* ------------------------------------------------------------- fvg.detect
\* gap_top, gap_bottom taken as for a bullish gap whatever the type
gap_bounds_bullish_only(fvg_type, prev, next) == [top |-> next.low, bottom |-> prev.high]

\* gap_top, gap_bottom
gap_bounds(fvg_type, prev, next) ==
    IF fvg_type = "bullish" THEN [top |-> next.low, bottom |-> prev.high]
    ELSE [top |-> prev.low, bottom |-> next.high]

\* _check_fvg(df, candle_n_idx) with the default min_gap_pct 0.0001 and
\* impulse_body_pct 0.60: {} for None, else the gap
check_fvg(s, candle_n_idx) ==
    IF candle_n_idx < 1 \/ candle_n_idx + 1 >= Len(s) THEN {}
    ELSE LET c_prev == At(s, candle_n_idx - 1)
             c_now == At(s, candle_n_idx)
             c_next == At(s, candle_n_idx + 1)
             raw_bullish == c_next.low > c_prev.high
             raw_bearish == c_next.high < c_prev.low
             fvg_type == IF raw_bullish THEN "bullish" ELSE "bearish"
             gap == gap_bounds(fvg_type, c_prev, c_next)
             gap_size == IF raw_bullish THEN c_next.low - c_prev.high
                         ELSE c_prev.low - c_next.high
             \* gap_size / ((h_now + l_now) / 2) < 0.0001
             too_small == gap_size * 2 * 10000 < c_now.high + c_now.low
             is_bull_candle == c_now.close > c_now.open
             is_bear_candle == c_now.close < c_now.open
             candle_range == c_now.high - c_now.low
             \* body / candle_range < 0.60
             weak_body == candle_range > 0
                              /\ Abs(c_now.close - c_now.open) * 100 < 60 * candle_range
         IN  IF c_now.high + c_now.low = 0 THEN {}
             ELSE IF ~raw_bullish /\ ~raw_bearish THEN {}
             ELSE IF too_small THEN {}
             ELSE IF fvg_type = "bullish" /\ ~is_bull_candle THEN {}
             ELSE IF fvg_type = "bearish" /\ ~is_bear_candle THEN {}
             ELSE IF weak_body THEN {}
             ELSE {[kind |-> "fvg", role |-> fvg_type, top |-> gap.top, bottom |-> gap.bottom,
                    start |-> index_ts(candle_n_idx), end |-> index_ts(candle_n_idx)]}

\* for i in range(scan_end, scan_start, -1)
fvg_zones(s) ==
    LET scan_end == Len(s) - 2
        scan_start == Max(1, scan_end - FvgLookback)
    IN  UNION {check_fvg(s, i) : i \in (scan_start + 1)..scan_end}

\* ---------------------------------------------------------------- actions
InitZones ==
    /\ series \in AllSeries
    /\ zcalled = "none"
    /\ zreturned = {}
    /\ NoServer
    /\ NoCall
    /\ Elsewhere
    /\ Later

ZonesOfAccumulation ==
    /\ \E min_candles \in {1, 2}, lookback \in {3, 4} :
         LET sizes == ScannedSizes(Len(series), min_candles, lookback)
         IN  \E candidate \in sizes \cup {0} :
               \E secondary \in (sizes \ {candidate}) \cup {0} :
                  /\ candidate = 0 => secondary = 0
                  /\ zreturned' = accumulation_zones(series, min_candles, candidate, secondary)
    /\ zcalled' = "accumulation"
    /\ UNCHANGED <<series, notZones>>

\* the series has no qualifying candle, one, or only qualifying candles
ZonesOfSupplyDemand ==
    /\ \E qualifying \in {{}} \cup {{i} : i \in 1..(Len(series) - 3)} \cup {1..(Len(series) - 3)} :
         zreturned' = supply_demand_zones(series, qualifying)
    /\ zcalled' = "supply_demand"
    /\ UNCHANGED <<series, notZones>>

ZonesOfFvg ==
    /\ zreturned' = fvg_zones(series)
    /\ zcalled' = "fvg"
    /\ UNCHANGED <<series, notZones>>

NextZones == ZonesOfAccumulation \/ ZonesOfSupplyDemand \/ ZonesOfFvg

SpecZones == InitZones /\ [][NextZones]_vars

\* ---------------------------------------------------------------- claims
\* C16: every zone a detector returns (the accumulation zone and its secondary
\* zone, each supply/demand zone, each fair-value gap) has top >= bottom, and
\* every zone with a start and an end has start <= end.
C16_ZonesWellFormed ==
    \A z \in zreturned :
        /\ z.top >= z.bottom
        /\ (z.kind # "fvg" => z.start <= z.end)

\* accumulation.detect has returned a zone of positive height together with a
\* secondary zone that spans two candles
C16_ZoneReturned ==
    /\ zcalled = "accumulation"
    /\ \E z \in zreturned : z.role = "candidate" /\ z.top > z.bottom
    /\ \E z \in zreturned : z.role = "secondary" /\ z.start < z.end

\* ============================================================== SpecLock
\* the functions a thread downloads in: the detection loop fetches candles and
\* the bias, a request handler also serves /debug/replay
Jobs(th) ==
    IF th = "detector" THEN {"_fetch_df", "_get_bias"}
    ELSE {"_fetch_df", "_get_bias", "_debug_replay"}

InitLock ==
    /\ NoDownload
    /\ NoServer /\ NoCall /\ NoScan /\ NoRun /\ NoGetDf /\ Later

\* a thread reaches "with _YF_LOCK:" or "_YF_LOCK.acquire(timeout=10)"
ReachLock(th) ==
    /\ phase[th] = "idle"
    /\ \E j \in Jobs(th) : job' = [job EXCEPT ![th] = j]
    /\ phase' = [phase EXCEPT ![th] = "acquire"]
    /\ UNCHANGED <<yf_lock, notLock>>

\* the lock is free: the thread takes it and calls yf.download
Acquire(th) ==
    /\ phase[th] = "acquire"
    /\ yf_lock = "free"
    /\ yf_lock' = th
    /\ phase' = [phase EXCEPT ![th] = "download"]
    /\ UNCHANGED <<job, notLock>>

\* _debug_replay: acquire(timeout=10) returns False while another thread keeps
\* the lock, and yf.download is called all the same
AcquireTimesOut(th) ==
    /\ phase[th] = "acquire"
    /\ job[th] = "_debug_replay"
    /\ yf_lock # "free"
    /\ phase' = [phase EXCEPT ![th] = "download"]
    /\ UNCHANGED <<yf_lock, job, notLock>>

\* yf.download returns or raises: the with block, or the finally clause if
\* acquired, releases the lock
Release(th) ==
    /\ phase[th] = "download"
    /\ yf_lock' = IF yf_lock = th THEN "free" ELSE yf_lock
    /\ phase' = [phase EXCEPT ![th] = "idle"]
    /\ job' = [job EXCEPT ![th] = "none"]
    /\ UNCHANGED notLock

NextLock ==
    \/ \E th \in Threads : ReachLock(th)
    \/ \E th \in Threads : Acquire(th)
    \/ \E th \in Threads : AcquireTimesOut(th)
    \/ \E th \in Threads : Release(th)

SpecLock == InitLock /\ [][NextLock]_vars

\* C17: no two provider downloads run at the same time in the process: every
\* download (_fetch_df, _get_bias, _debug_replay), from any thread, runs while
\* that thread holds _YF_LOCK.
C17_DownloadsHoldLock ==
    /\ \A th \in Threads : phase[th] = "download" => yf_lock = th
    /\ Cardinality({th \in Threads : phase[th] = "download"}) <= 1

\* =============================================================== SpecRun
\* REGISTRY of detectors/__init__.py
REGISTRY == {"accumulation"}

\* detector_params[name]["timeframe"] of the instruments of PAIRS
Timeframe(name) == IF name = "supply_demand" THEN "30m" ELSE "1m"

\* config["detectors"]: the lists of PAIRS, and the two detectors together
DetectorLists ==
    {<<"accumulation">>, <<"supply_demand">>,
     <<"accumulation", "supply_demand">>, <<"supply_demand", "accumulation">>}

\* what fn(df, **params) gives: a result, or an exception (then None is stored)
Outcomes(name, frame) ==
    IF name = "accumulation"
    THEN (IF frame = "empty" THEN {"None", "weekend", "raises"}
          ELSE {"None", "weekend", "looking", "active", "confirmed", "raises"})
    ELSE {"dict", "raises"}

InitRun ==
    /\ detector_names \in DetectorLists
    /\ position = 1
    /\ cache = EmptyDict
    /\ results = EmptyDict
    /\ run_state = "running"
    /\ ran = {}
    /\ failed = {}
    /\ NoServer /\ NoCall /\ NoScan /\ NoDownload /\ NoGetDf /\ Later

\* one pass of the for loop: _get_df fetches the interval unless the cache has
\* it, then the detector is looked up in REGISTRY and called inside try/except
ServeDetector ==
    /\ run_state = "running"
    /\ position <= Len(detector_names)
    /\ LET name == detector_names[position]
           detector_interval == Timeframe(name)
       IN  /\ \E fetched \in {"candles", "empty"} :
                cache' = IF detector_interval \in DOMAIN cache THEN cache
                         ELSE Put(cache, detector_interval, fetched)
           /\ IF name \notin REGISTRY
              THEN /\ results' = Put(results, name, "None")
                   /\ UNCHANGED <<ran, failed>>
              ELSE \E o \in Outcomes(name, cache'[detector_interval]) :
                      /\ results' = Put(results, name, IF o = "raises" THEN "None" ELSE o)
                      /\ ran' = ran \cup {name}
                      /\ failed' = IF o = "raises" THEN failed \cup {name} ELSE failed
    /\ position' = position + 1
    /\ UNCHANGED <<detector_names, run_state, notRun>>

\* yf.download raises in _fetch_df: _get_df is called outside the try block,
\* so the exception leaves _run_detectors
FetchRaises ==
    /\ run_state = "running"
    /\ position <= Len(detector_names)
    /\ Timeframe(detector_names[position]) \notin DOMAIN cache
    /\ run_state' = "raised"
    /\ failed' = failed \cup {detector_names[position]}
    /\ UNCHANGED <<detector_names, position, cache, results, ran, notRun>>

\* return results
ReturnResults ==
    /\ run_state = "running"
    /\ position > Len(detector_names)
    /\ run_state' = "returned"
    /\ UNCHANGED <<detector_names, position, cache, results, ran, failed, notRun>>

NextRun == ServeDetector \/ FetchRaises \/ ReturnResults

SpecRun == InitRun /\ [][NextRun]_vars

Configured == {detector_names[i] : i \in DOMAIN detector_names}

\* C18: a failure while serving one detector (its fetch or its detect call)
\* leaves only that detector's result as None: the call returns a dict with an
\* entry for every configured name, and every other registered detector has run.
C18_FailureIsolated ==
    run_state \in {"returned", "raised"}
        => /\ run_state = "returned"
           /\ Configured \subseteq DOMAIN results
           /\ \A name \in Configured \cap REGISTRY : name \in failed \/ name \in ran

\* C19: every detector name an instrument of PAIRS is configured with
\* (accumulation, supply_demand) resolves through REGISTRY, so the detector has
\* run when _run_detectors returns.
C19_ConfiguredNamesRegistered ==
    run_state = "returned" => Configured \subseteq ran

\* ================================================================ SpecMt
\* what GET /Connect gives: a token, a status other than 200 (RuntimeError),
\* requests.Timeout, another requests.RequestException
ConnectResults == {"token", "http_error", "timeout", "request_error"}

\* what GET /PriceHistory gives
Responses ==
    {"bars", "no_bars", "not_a_list", "token_error", "api_error", "http_error",
     "timeout", "request_error"}

InitMt ==
    /\ mt_lock = "free"
    /\ mt_token \in BOOLEAN
    /\ mt_phase = [c \in Callers |-> "idle"]
    /\ attempt = [c \in Callers |-> 0]
    /\ sent = [c \in Callers |-> 0]
    /\ outcome = [c \in Callers |-> "none"]
    /\ NoServer /\ NoCall /\ NoScan /\ NoDownload /\ NoRun /\ Later

\* get_df is called and waits at "with LOCK:"
CallGetDf(c) ==
    /\ mt_phase[c] \in {"idle", "done"}
    /\ mt_phase' = [mt_phase EXCEPT ![c] = "lock"]
    /\ attempt' = [attempt EXCEPT ![c] = 0]
    /\ sent' = [sent EXCEPT ![c] = 0]
    /\ outcome' = [outcome EXCEPT ![c] = "none"]
    /\ UNCHANGED <<mt_lock, mt_token, notMt>>

\* get_df leaves the with block, by return or by exception
Leave(c, how) ==
    /\ mt_phase' = [mt_phase EXCEPT ![c] = "done"]
    /\ outcome' = [outcome EXCEPT ![c] = how]
    /\ mt_lock' = "free"

\* LOCK is taken; _fetch returns an empty DataFrame for an unsupported
\* interval and calls _get_token() otherwise: the cached token, or _connect()
EnterFetch(c) ==
    /\ mt_phase[c] = "lock"
    /\ mt_lock = "free"
    /\ \E supported \in BOOLEAN :
         IF ~supported
         THEN Leave(c, "empty") /\ UNCHANGED mt_token
         ELSE IF mt_token
         THEN /\ mt_phase' = [mt_phase EXCEPT ![c] = "request"]
              /\ mt_lock' = c
              /\ UNCHANGED <<mt_token, outcome>>
         ELSE \E r \in ConnectResults :
                 IF r = "token"
                 THEN /\ mt_token' = TRUE
                      /\ mt_phase' = [mt_phase EXCEPT ![c] = "request"]
                      /\ mt_lock' = c
                      /\ UNCHANGED outcome
                 ELSE Leave(c, "raised") /\ UNCHANGED mt_token
    /\ UNCHANGED <<attempt, sent, notMt>>

\* one attempt of the retry loop: the request and what its answer leads to
PriceHistory(c) ==
    /\ mt_phase[c] = "request"
    /\ sent' = [sent EXCEPT ![c] = @ + 1]
    /\ \E resp \in Responses :
         IF resp = "bars" THEN Leave(c, "df") /\ UNCHANGED <<mt_token, attempt>>
         ELSE IF resp \in {"no_bars", "not_a_list", "api_error", "http_error"}
         THEN Leave(c, "empty") /\ UNCHANGED <<mt_token, attempt>>
         ELSE IF attempt[c] = 1
         THEN Leave(c, "empty") /\ UNCHANGED <<mt_token, attempt>>
         ELSE IF resp = "timeout"
         THEN /\ attempt' = [attempt EXCEPT ![c] = 1]
              /\ UNCHANGED <<mt_lock, mt_token, mt_phase, outcome>>
         ELSE /\ mt_phase' = [mt_phase EXCEPT ![c] =
                                 IF resp = "token_error" THEN "reconnect" ELSE "reconnect_in_handler"]
              /\ UNCHANGED <<mt_lock, mt_token, attempt, outcome>>
    /\ UNCHANGED notMt

\* _reconnect() in the try block, after a session error: _token = None, then
\* _connect(). A RuntimeError leaves _fetch; requests.Timeout goes to the next
\* attempt; another RequestException is caught by the handler that reconnects.
Reconnect(c) ==
    /\ mt_phase[c] = "reconnect"
    /\ \E r \in ConnectResults :
         IF r = "token"
         THEN /\ mt_token' = TRUE
              /\ attempt' = [attempt EXCEPT ![c] = 1]
              /\ mt_phase' = [mt_phase EXCEPT ![c] = "request"]
              /\ UNCHANGED <<mt_lock, outcome>>
         ELSE IF r = "http_error"
         THEN Leave(c, "raised") /\ mt_token' = FALSE /\ UNCHANGED attempt
         ELSE IF r = "timeout"
         THEN /\ mt_token' = FALSE
              /\ attempt' = [attempt EXCEPT ![c] = 1]
              /\ mt_phase' = [mt_phase EXCEPT ![c] = "request"]
              /\ UNCHANGED <<mt_lock, outcome>>
         ELSE /\ mt_token' = FALSE
              /\ mt_phase' = [mt_phase EXCEPT ![c] = "reconnect_in_handler"]
              /\ UNCHANGED <<mt_lock, attempt, outcome>>
    /\ UNCHANGED <<sent, notMt>>

\* _reconnect() in the except RequestException handler: whatever _connect()
\* raises there leaves _fetch
ReconnectInHandler(c) ==
    /\ mt_phase[c] = "reconnect_in_handler"
    /\ \E r \in ConnectResults :
         IF r = "token"
         THEN /\ mt_token' = TRUE
              /\ attempt' = [attempt EXCEPT ![c] = 1]
              /\ mt_phase' = [mt_phase EXCEPT ![c] = "request"]
              /\ UNCHANGED <<mt_lock, outcome>>
         ELSE Leave(c, "raised") /\ mt_token' = FALSE /\ UNCHANGED attempt
    /\ UNCHANGED <<sent, notMt>>

NextMt ==
    \/ \E c \in Callers : CallGetDf(c)
    \/ \E c \in Callers : EnterFetch(c)
    \/ \E c \in Callers : PriceHistory(c)
    \/ \E c \in Callers : Reconnect(c)
    \/ \E c \in Callers : ReconnectInHandler(c)

SpecMt == InitMt /\ [][NextMt]_vars

\* C20: get_df never raises: on every failure it returns an empty DataFrame;
\* it sends at most two /PriceHistory requests per call and has released LOCK
\* when it returns.
C20_GetDfNeverRaises ==
    \A c \in Callers :
        /\ sent[c] <= 2
        /\ mt_phase[c] = "done" => (outcome[c] \in {"df", "empty"} /\ mt_lock # c)

\* ============================================================= SpecPairs
\* two instruments of PAIRS, each served by its own PairServer
PairIds == {"US30", "EURUSD"}

\* config["detectors"] of the instrument
DetectorOf(pair_id) == IF pair_id = "US30" THEN "accumulation" ELSE "supply_demand"

\* every PairServer given the same file
alerted_file_shared(pair_id) == ".alerted_" \o ".json"

\* self._alerted_file = f".alerted_{pair_id}.json"
alerted_file(pair_id) == ".alerted_" \o pair_id \o ".json"

\* the detection loop and a request handler of the PairServer of pair_id
DetectorThread(pair_id) == <<"detector", pair_id>>

HandlerThread(pair_id) == <<"handler", pair_id>>

\* the routes of _register_routes that answer with data
Routes == {"/api/data", "/debug/data", "/debug/replay", "/debug/sd", "/debug/fvg"}

\* the thread is added to the writers of whatever its step changed
Written(th) ==
    writers' = [k \in DOMAIN writers |->
                   IF \/ k \in DOMAIN pair_state /\ pair_state'[k] # pair_state[k]
                      \/ k \in DOMAIN alerted_files /\ alerted_files'[k] # alerted_files[k]
                   THEN writers[k] \cup {th} ELSE writers[k]]

\* PairServer.__init__ of each instrument
InitPairs ==
    /\ alerted_files = [f \in {alerted_file(p) : p \in PairIds} |-> MissingFile]
    /\ pair_state = [p \in PairIds |->
                        [la |-> load_alerted(alerted_files[alerted_file(p)]),
                         acc |-> None, sd_starts |-> {}]]
    /\ writers = [k \in PairIds \cup {alerted_file(p) : p \in PairIds} |-> {}]
    /\ served = [p \in PairIds |-> "none"]
    /\ OnlyPairs

\* one pass of the _detection_loop of one PairServer
PairCycle(p) ==
    /\ \E t \in 1..2 :
         \E r \in Results(DetectorOf(p), t) :
            LET h0 == [la |-> pair_state[p].la, acc |-> pair_state[p].acc,
                       sd_starts |-> pair_state[p].sd_starts,
                       file |-> alerted_files[alerted_file(p)],
                       notes |-> <<>>, saves |-> 0, dead |-> FALSE,
                       old |-> EmptyDict, new |-> EmptyDict]
                h == IF DetectorOf(p) = "accumulation"
                     THEN AccumulationBranch(h0, r, t, 0, FALSE)
                     ELSE SupplyDemandBranch(h0, r, 0, FALSE)
            IN  /\ pair_state' = [pair_state EXCEPT ![p] =
                                     [la |-> h.la, acc |-> h.acc, sd_starts |-> h.sd_starts]]
                /\ alerted_files' = [alerted_files EXCEPT ![alerted_file(p)] = h.file]
    /\ Written(DetectorThread(p))
    /\ UNCHANGED <<served, notPairs>>

\* a request handler of one PairServer answers a route: /api/data reads the
\* held zone, the debug routes read only the configuration
HandleRequest(p) ==
    /\ \E route \in Routes :
         served' = [served EXCEPT ![p] =
                       IF route = "/api/data" /\ DetectorOf(p) = "accumulation"
                       THEN api_data(pair_state[p].acc).status
                       ELSE route]
    /\ UNCHANGED <<pair_state, alerted_files>>
    /\ Written(HandlerThread(p))
    /\ UNCHANGED notPairs

NextPairs ==
    \/ \E p \in PairIds : PairCycle(p)
    \/ \E p \in PairIds : HandleRequest(p)

SpecPairs == InitPairs /\ [][NextPairs]_vars

\* C21: last_alerted and last_active_zone of a PairServer, and its dedup file,
\* are written by that instrument's detection-loop thread only: request
\* handlers only read them, and no other instrument's cycle writes them.
C21_ExclusiveWriter ==
    \A p \in PairIds :
        /\ writers[p] \subseteq {DetectorThread(p)}
        /\ writers[alerted_file(p)] \subseteq {DetectorThread(p)}

C21_BothWrittenAndServed ==
    \A p \in PairIds :
        /\ writers[p] # {}
        /\ writers[alerted_file(p)] # {}
        /\ served[p] # "none"

\* =============================================================== SpecAcc
\* candles without wicks: the scan reads the bodies only
BodyCandles == {c \in Candles : c.high = body_high(c) /\ c.low = body_low(c)}

\* eight candles, oldest first: a four times, b twice, then the breakout
\* candle c and the forming candle a. The scan reads of a window's candles the
\* body's ends and size only, so a and b are taken rising or flat.
AccSeries ==
    {<<a, a, a, a, b, b, c, a>> :
        a \in {x \in BodyCandles : x.open <= x.close},
        b \in {x \in BodyCandles : x.open <= x.close},
        c \in BodyCandles}

\* what the tests measure of a window: rejected (the range, slope or ADX test
\* fails, or chop < CHOP_POTENTIAL), or its tier with the zone's adx < 10 and slope
Rejected == [status |-> "rejected", low_adx |-> FALSE, slope |-> 0]

Measures ==
    {Rejected} \cup [status : {"found", "potential"}, low_adx : BOOLEAN, slope : {0, 1}]

\* the windows the scan loop evaluates
Evaluated(n, min_candles, lookback) ==
    {[start |-> WindowStart(n, w), size |-> w] : w \in ScannedSizes(n, min_candles, lookback)}

\* found_candidates / potential_candidates: appended in the order of the loop
RECURSIVE CandidatesFrom(_, _, _, _)
CandidatesFrom(m, tier, w, last) ==
    IF w > last THEN <<>>
    ELSE (IF w \in DOMAIN m /\ m[w].status = tier THEN <<w>> ELSE <<>>)
             \o CandidatesFrom(m, tier, w + 1, last)

\* sorted(candidates, key=lambda z: z["slope"]): a stable sort
RECURSIVE sorted_by_slope(_, _)
sorted_by_slope(cands, m) ==
    IF cands = <<>> THEN <<>>
    ELSE LET x == Head(cands)
             rest == sorted_by_slope(Tail(cands), m)
         IN  SelectSeq(rest, LAMBDA y : m[y].slope < m[x].slope) \o <<x>>
                 \o SelectSeq(rest, LAMBDA y : m[y].slope >= m[x].slope)

\* the two groups joined the other way round
rank_rest_first(cands, m) ==
    sorted_by_slope(SelectSeq(cands, LAMBDA y : ~m[y].low_adx), m)
        \o sorted_by_slope(SelectSeq(cands, LAMBDA y : m[y].low_adx), m)

\* _rank: low_adx + rest
rank(cands, m) ==
    sorted_by_slope(SelectSeq(cands, LAMBDA y : m[y].low_adx), m)
        \o sorted_by_slope(SelectSeq(cands, LAMBDA y : ~m[y].low_adx), m)

\* ranked_all = _rank(found_candidates) + _rank(potential_candidates)
RankedAll(m, min_candles, lookback) ==
    rank(CandidatesFrom(m, "found", min_candles, lookback), m)
        \o rank(CandidatesFrom(m, "potential", min_candles, lookback), m)

\* the breakout candle df.iloc[len(df) - 2]
Breakout(s) == At(s, Len(s) - 2)

\* is_active of a window: the breakout body inside [l_min, h_max]
InsideBox(s, w) ==
    LET i == WindowStart(Len(s), w)
    IN  body_low(Breakout(s)) >= l_min(s, i, w) /\ body_high(Breakout(s)) <= h_max(s, i, w)

\* a body as large as the average passes too
is_impulsive_or_equal(s, w) ==
    Abs(Breakout(s).close - Breakout(s).open) * w >= SumBodies(s, WindowStart(Len(s), w), w)

\* is_impulsive = bo_body_size > avg_body, the mean of the window's bodies.
\* round(avg_body, 6) does not change the comparison for prices on a tick:
\* bo_body_size and avg_body are multiples of tick / w, which is far above 1e-6
is_impulsive(s, w) ==
    Abs(Breakout(s).close - Breakout(s).open) * w > SumBodies(s, WindowStart(Len(s), w), w)

NoZone == [status |-> "looking", is_active |-> FALSE, zone |-> 0, secondary_zone |-> 0,
           breakout_dir |-> "absent", breakout_candle |-> "absent"]

\* what detect returns, from ranked_all on
accumulation_result(s, ranked) ==
    IF ranked = <<>> THEN NoZone
    ELSE LET candidate == ranked[1]
             second == IF Len(ranked) > 1 THEN ranked[2] ELSE 0
             i == WindowStart(Len(s), candidate)
             broke_up == body_high(Breakout(s)) > h_max(s, i, candidate)
             broke_down == body_low(Breakout(s)) < l_min(s, i, candidate)
             active == [status |-> "active", is_active |-> TRUE, zone |-> candidate,
                        secondary_zone |-> second, breakout_dir |-> "absent",
                        breakout_candle |-> "absent"]
         IN  IF InsideBox(s, candidate) THEN active
             ELSE IF ~broke_up /\ ~broke_down THEN active
             ELSE IF ~is_impulsive(s, candidate) THEN NoZone
             ELSE [status |-> "confirmed", is_active |-> FALSE, zone |-> candidate,
                   secondary_zone |-> second,
                   breakout_dir |-> IF broke_up THEN "up" ELSE "down",
                   breakout_candle |-> Breakout(s)]

InitAcc ==
    /\ acc_series \in AccSeries
    /\ acc_params \in {[min_candles |-> 2, lookback |-> lb] : lb \in {5, 6}}
    /\ measured = EmptyDict
    /\ evaluated = {}
    /\ ranked_all = <<>>
    /\ acc_result = EmptyDict
    /\ OnlyAcc

\* detect(df, lookback, min_candles, ...) in a session, the tests measuring m:
\* the scan, the ranking and the decision
Detected(m) ==
    /\ measured' = m
    /\ evaluated' = Evaluated(Len(acc_series), acc_params.min_candles, acc_params.lookback)
    /\ ranked_all' = RankedAll(m, acc_params.min_candles, acc_params.lookback)
    /\ acc_result' = accumulation_result(acc_series, ranked_all')
    /\ UNCHANGED <<acc_series, acc_params, notAcc>>

\* the first call
AccumulationDetect ==
    /\ acc_result = EmptyDict
    /\ \E m \in [ScannedSizes(Len(acc_series), acc_params.min_candles, acc_params.lookback)
                    -> Measures] : Detected(m)

\* a further call on the same candles: the tests reject one of the windows
\* that was not selected, or rank it best or worst
AccumulationDetectAgain ==
    /\ acc_result # EmptyDict
    /\ \E w \in DOMAIN measured,
          v \in {Rejected, [status |-> "found", low_adx |-> TRUE, slope |-> 0],
                 [status |-> "potential", low_adx |-> FALSE, slope |-> 1]} :
         /\ ranked_all # <<>> => w # ranked_all[1]
         /\ Detected([measured EXCEPT ![w] = v])

NextAcc == AccumulationDetect \/ AccumulationDetectAgain

SpecAcc == InitAcc /\ [][NextAcc]_vars

\* C22: given at least lookback + 2 candles, every window size from min_candles
\* to lookback inclusive is evaluated, on the window that ends right before the
\* breakout candle; no evaluated window holds the breakout or the forming candle.
C22_EveryWindowSizeEvaluated ==
    (acc_result # EmptyDict /\ Len(acc_series) >= acc_params.lookback + 2)
        => /\ evaluated = {[start |-> Len(acc_series) - 2 - w, size |-> w] :
                              w \in acc_params.min_candles..acc_params.lookback}
           /\ \A e \in evaluated : e.start + e.size - 1 < Len(acc_series) - 2

\* the candidates, and the order of the ranking: found before potential, then
\* adx < 10 before the others, then the smaller slope
Surviving == {w \in DOMAIN measured : measured[w].status \in {"found", "potential"}}

Precedes(x, y) ==
    LET mx == measured[x]
        my == measured[y]
    IN  \/ mx.status = "found" /\ my.status = "potential"
        \/ mx.status = my.status /\ mx.low_adx /\ ~my.low_adx
        \/ mx.status = my.status /\ mx.low_adx = my.low_adx /\ mx.slope < my.slope

SelectedInOrder ==
    /\ (ranked_all = <<>>) = (Surviving = {})
    /\ ranked_all # <<>> =>
         /\ ranked_all[1] \in Surviving
         /\ \A y \in Surviving : ~Precedes(y, ranked_all[1])
         /\ acc_result.zone \in {0, ranked_all[1]}
         /\ (Surviving = {ranked_all[1]}) = (Len(ranked_all) = 1)
         /\ Len(ranked_all) > 1 =>
              /\ ranked_all[2] \in Surviving \ {ranked_all[1]}
              /\ \A y \in Surviving \ {ranked_all[1]} : ~Precedes(y, ranked_all[2])
              /\ acc_result.secondary_zone \in {0, ranked_all[2]}
    /\ ranked_all = <<>> => acc_result = NoZone

\* C23: the selected zone is the first candidate in the order found before
\* potential, adx < 10 before the others, ascending slope; the second in that
\* order is returned as secondary_zone only and does not decide the status: two
\* calls on the same candles that select the same zone return the same status.
C23_FirstInOrderDecides ==
    [][/\ SelectedInOrder'
       /\ (ranked_all # <<>> /\ ranked_all' # <<>> /\ ranked_all'[1] = ranked_all[1])
            => acc_result'.status = acc_result.status]_vars

\* a potential window with the higher slope was selected over two others and
\* returned confirmed with its secondary zone
C23_ThreeRanked ==
    /\ Len(ranked_all) = 3
    /\ measured[ranked_all[1]].slope > measured[ranked_all[2]].slope
    /\ measured[ranked_all[2]].status = "potential"
    /\ acc_result.status = "confirmed"
    /\ acc_result.secondary_zone = ranked_all[2]

\* C24: for the selected zone, status is active iff the breakout body lies
\* within [bottom, top]; otherwise confirmed (is_active false, breakout_dir up
\* iff the body high is above top, with the breakout candle) iff the breakout
\* body is larger than the window's average body, and looking otherwise.
C24_StatusOfSelected ==
    (acc_result # EmptyDict /\ ranked_all # <<>>)
        => LET w == ranked_all[1]
               i == Len(acc_series) - 2 - w
               bo == acc_series[Len(acc_series) - 1]
               top == h_max(acc_series, i, w)
               bottom == l_min(acc_series, i, w)
               within == bottom <= Min(bo.open, bo.close) /\ Max(bo.open, bo.close) <= top
               larger == Abs(bo.close - bo.open) * w > SumBodies(acc_series, i, w)
           IN  /\ acc_result.status \in {"active", "confirmed", "looking"}
               /\ (acc_result.status = "active") = within
               /\ (acc_result.status = "confirmed") = (~within /\ larger)
               /\ (acc_result.status = "looking") = (~within /\ ~larger)
               /\ acc_result.status = "active" => acc_result.is_active
               /\ acc_result.status = "confirmed" =>
                    /\ ~acc_result.is_active
                    /\ (acc_result.breakout_dir = "up") = (Max(bo.open, bo.close) > top)
                    /\ acc_result.breakout_dir \in {"up", "down"}
                    /\ acc_result.breakout_candle = bo

\* a breakout downwards was returned confirmed
C24_ConfirmedDown ==
    /\ acc_result # EmptyDict
    /\ acc_result.status = "confirmed"
    /\ acc_result.breakout_dir = "down"

SESSION_PRE_OPEN == [asian |-> 0, london |-> 7, new_york |-> 13]

SessionNames == <<"asian", "london", "new_york">>

\* datetime.fromtimestamp(ts, tz=utc).hour, ts counted in minutes
HourOf(ts) == (ts \div 60) % 24

\* _candle_session_or_pre: the first session, in the order of SESSION_WINDOWS,
\* with pre <= hour < end
candle_session_or_pre(ts) ==
    LET hits == {k \in 1..Len(SessionNames) :
                    /\ SESSION_PRE_OPEN[SessionNames[k]] <= HourOf(ts)
                    /\ HourOf(ts) < SESSION_WINDOWS[SessionNames[k]][2]}
    IN  IF hits = {} THEN "None"
        ELSE SessionNames[CHOOSE k \in hits : \A j \in hits : k <= j]

\* _in_session
in_session(ts, valid_sessions) == candle_session_or_pre(ts) \in valid_sessions

\* the daily candle alone decides
get_bias_daily_only(ticker, fetch, daily, weekly) ==
    IF ~ticker \/ fetch # "candles" THEN "misaligned"
    ELSE IF daily.close > daily.open THEN "bullish" ELSE "bearish"

\* bias_info["bias"]: _get_bias(ticker, yf_lock) if ticker, else misaligned;
\* the fetch raises, gives fewer than two candles, or gives the candles
get_bias(ticker, fetch, daily, weekly) ==
    LET daily_bias == IF daily.close > daily.open THEN "bullish" ELSE "bearish"
        weekly_bias == IF weekly.close > weekly.open THEN "bullish" ELSE "bearish"
    IN  IF ~ticker \/ fetch # "candles" THEN "misaligned"
        ELSE IF daily_bias = weekly_bias THEN daily_bias ELSE "misaligned"

\* int(df.index[i].timestamp()), in minutes
candle_ts(x, i) == x.first_ts + i * x.interval

\* the zone type of the indecision candle at i: the direction of the impulse
\* candle at i + 1 (every candle of the series passes the other tests)
zone_type(x, i) ==
    IF x.impulses = "mixed" THEN (IF i % 2 = 1 THEN "demand" ELSE "supply")
    ELSE x.impulses

\* for i in range(len(df) - 3, 0, -1), from i on
RECURSIVE sd_scan(_, _, _, _)
sd_scan(x, look_for, i, acc) ==
    IF i < 1 THEN acc
    ELSE LET seen == [acc EXCEPT !.visited = @ \cup {i}]
             passed == [seen EXCEPT !.accepted = @ \cup {i}]
             kept == [passed EXCEPT !.zones =
                         Append(@, [type |-> zone_type(x, i), start |-> candle_ts(x, i),
                                    session |-> candle_session_or_pre(candle_ts(x, i))])]
         IN  IF ~in_session(candle_ts(x, i), x.valid_sessions)
             THEN sd_scan(x, look_for, i - 1, seen)
             ELSE IF zone_type(x, i) # look_for THEN sd_scan(x, look_for, i - 1, passed)
             ELSE IF Len(kept.zones) >= MaxZones THEN kept
             ELSE sd_scan(x, look_for, i - 1, kept)

\* detect: bias, zones and what the loop did; a fault inside the function is
\* caught and answered with misaligned
sd_detect(x) ==
    LET b == get_bias(x.ticker, x.fetch, x.daily, x.weekly)
        nothing == [zones |-> <<>>, visited |-> {}, accepted |-> {}]
        scan == sd_scan(x, IF b = "bullish" THEN "demand" ELSE "supply", x.len - 3, nothing)
    IN  IF b = "misaligned" THEN [bias |-> b, scan |-> nothing]
        ELSE IF x.len < SdMinCandles THEN [bias |-> b, scan |-> nothing]
        ELSE IF x.malformed THEN [bias |-> "misaligned", scan |-> nothing]
        ELSE [bias |-> b, scan |-> scan]

HigherCandles == [open : 1..2, close : 1..2]

SdCalls ==
    [ticker : BOOLEAN, fetch : {"raises", "short", "candles"},
     daily : HigherCandles, weekly : HigherCandles,
     len : {9, 12}, malformed : BOOLEAN, first_ts : {60 * k : k \in 0..23},
     interval : {30, 60}, impulses : {"demand", "mixed"},
     valid_sessions : {{"london", "new_york"}, {"asian", "london", "new_york"}}]

InitSd ==
    /\ sd_call \in {x \in SdCalls : (x.len = 9 \/ x.malformed) => x.first_ts = 0}
    /\ sd_visited = {}
    /\ sd_accepted = {}
    /\ sd_result = EmptyDict
    /\ OnlySd

SupplyDemandDetect ==
    /\ sd_result = EmptyDict
    /\ LET r == sd_detect(sd_call)
       IN  /\ sd_result' = [bias |-> r.bias, zones |-> r.scan.zones]
           /\ sd_visited' = r.scan.visited
           /\ sd_accepted' = r.scan.accepted
    /\ UNCHANGED <<sd_call, notSd>>

NextSd == SupplyDemandDetect

SpecSd == InitSd /\ [][NextSd]_vars

\* C26: detect returns bias misaligned and no zone, scanning no candle,
\* whenever no ticker is given, the bias fetch raises or gives fewer than two
\* candles, or the daily and weekly candles disagree in direction; when they
\* agree, only demand zones are returned for bullish, only supply for bearish.
C26_MisalignedScansNothing ==
    sd_result # EmptyDict =>
        LET x == sd_call
            up(c) == c.close > c.open
            no_bias == ~x.ticker \/ x.fetch \in {"raises", "short"}
                          \/ up(x.daily) # up(x.weekly)
        IN  /\ no_bias => /\ sd_result.bias = "misaligned"
                          /\ sd_result.zones = <<>>
                          /\ sd_visited = {}
            /\ sd_result.bias \in {"misaligned", "bullish", "bearish"}
            /\ sd_result.bias = "misaligned" => sd_result.zones = <<>>
            /\ \A k \in DOMAIN sd_result.zones :
                 /\ ~no_bias
                 /\ sd_result.zones[k].type = IF up(x.daily) THEN "demand" ELSE "supply"

\* under a bearish bias the scan passed over demand candles and returned
\* supply zones
C26_SupplyOnly ==
    /\ sd_result # EmptyDict
    /\ sd_result.bias = "bearish"
    /\ sd_result.zones # <<>>
    /\ \E i \in sd_accepted : zone_type(sd_call, i) = "demand"

\* C27: the session filter accepts an indecision candle iff the candle falls
\* inside one of the valid sessions or is the single candle right before the
\* open of one of them, for each session and every candle interval.
C27_InSessionOrLastBeforeOpen ==
    \A i \in sd_visited :
        LET ts == candle_ts(sd_call, i)
            minute == ts % (24 * 60)
            inside(nm) == /\ SESSION_WINDOWS[nm][1] * 60 <= minute
                          /\ minute < SESSION_WINDOWS[nm][2] * 60
            before(nm) == minute = SESSION_WINDOWS[nm][1] * 60 - sd_call.interval
        IN  (i \in sd_accepted) =
                (\E nm \in sd_call.valid_sessions : inside(nm) \/ before(nm))

\* =============================================================== SpecApp
MaxAlertThreads == 3   \* alert threads started in one run

\* the starts detect_accumulation reports, and the seconds of the clock
ZoneStarts == 1..2

InitApp ==
    /\ last_alerted_start = 0
    /\ alert_threads = <<>>
    /\ alerts_sent = <<>>
    /\ app_clock = 1
    /\ OnlyApp

\* threading.Thread(target=capture_and_send_discord, args=(zone,)).start()
StartAlertThread(start_ts, origin) ==
    alert_threads' = Append(alert_threads, [start |-> start_ts, origin |-> origin, at |-> "check"])

\* GET /api/data/DOW: an active zone with start > last_alerted_start sets
\* last_alerted_start and starts the alert thread
GetDowData ==
    /\ Len(alert_threads) < MaxAlertThreads
    /\ \E start_ts \in ZoneStarts :
         /\ start_ts > last_alerted_start
         /\ last_alerted_start' = start_ts
         /\ StartAlertThread(start_ts, "/api/data/DOW")
    /\ UNCHANGED <<alerts_sent, app_clock, notApp>>

\* GET /test-screenshot: a zone that starts now
TestScreenshot ==
    /\ Len(alert_threads) < MaxAlertThreads
    /\ StartAlertThread(app_clock, "/test-screenshot")
    /\ UNCHANGED <<last_alerted_start, alerts_sent, app_clock, notApp>>

\* capture_and_send_discord: if zone_info['start'] <= last_alerted_start: return
CheckInThread(k) ==
    /\ alert_threads[k].at = "check"
    /\ alert_threads' = [alert_threads EXCEPT ![k].at =
                            IF alert_threads[k].start <= last_alerted_start
                            THEN "returned" ELSE "passed"]
    /\ UNCHANGED <<last_alerted_start, alerts_sent, app_clock, notApp>>

\* capture_and_send_discord: last_alerted_start = zone_info['start'], then the
\* screenshot and the webhook
SendInThread(k) ==
    /\ alert_threads[k].at = "passed"
    /\ last_alerted_start' = alert_threads[k].start
    /\ alerts_sent' = Append(alerts_sent, alert_threads[k].start)
    /\ alert_threads' = [alert_threads EXCEPT ![k].at = "sent"]
    /\ UNCHANGED <<app_clock, notApp>>

\* a second passes
AppTick ==
    /\ app_clock < 2
    /\ app_clock' = app_clock + 1
    /\ UNCHANGED <<last_alerted_start, alert_threads, alerts_sent, notApp>>

NextApp ==
    \/ GetDowData
    \/ TestScreenshot
    \/ \E k \in 1..MaxAlertThreads : k \in DOMAIN alert_threads /\ CheckInThread(k)
    \/ \E k \in 1..MaxAlertThreads : k \in DOMAIN alert_threads /\ SendInThread(k)
    \/ AppTick

SpecApp == InitApp /\ [][NextApp]_vars

\* C28: the alert thread that /api/data/DOW starts for a new active zone
\* passes its own check and sends the alert, and no zone start is alerted more
\* than once however requests and alert threads interleave.
C28_DowAlertSentOnce ==
    /\ \A k \in DOMAIN alert_threads :
         alert_threads[k].origin = "/api/data/DOW" => alert_threads[k].at # "returned"
    /\ \A i, j \in DOMAIN alerts_sent : alerts_sent[i] = alerts_sent[j] => i = j

\* =============================================================== SpecFvg
\* candles without wicks at prices from 0, a candle with open = close has no
\* range
FvgCandles ==
    {[open |-> o, high |-> Max(o, c), low |-> Min(o, c), close |-> c] :
        o \in 0..MaxPrice, c \in 0..MaxPrice}

\* df: closed candles a, b, c in turn, the last candle is the forming one
FvgSeries ==
    {[k \in 1..n |-> IF k % 3 = 1 THEN a ELSE IF k % 3 = 2 THEN b ELSE c] :
        n \in {5, 6}, a \in FvgCandles, b \in FvgCandles, c \in FvgCandles}

FvgLookbacks == {1, 2, 3}

\* range(scan_end, scan_start, -1)
RECURSIVE range_down(_, _)
range_down(from, to) ==
    IF from <= to THEN <<>> ELSE <<from>> \o range_down(from - 1, to)

\* the indices detect hands to _check_fvg that pass its index guard
fvg_scan(s, lookback) ==
    LET scan_end == Len(s) - 2
        scan_start == Max(1, scan_end - lookback)
    IN  SelectSeq(range_down(scan_end, scan_start),
                  LAMBDA i : ~(i < 1 \/ i + 1 >= Len(s)))

\* fvgs.append(result) for each result that is not None
RECURSIVE fvg_collect(_, _)
fvg_collect(s, idxs) ==
    IF idxs = <<>> THEN <<>>
    ELSE LET result == check_fvg(s, Head(idxs))
         IN  (IF result = {} THEN <<>> ELSE <<CHOOSE z \in result : TRUE>>)
                 \o fvg_collect(s, Tail(idxs))

\* detect's fvgs list
fvg_fvgs(s, lookback) == fvg_collect(s, fvg_scan(s, lookback))

InitFvg ==
    /\ fvg_df \in FvgSeries
    /\ fvg_lookback = 0
    /\ fvg_checked = <<>>
    /\ fvg_found = <<>>
    /\ fvg_single = <<>>
    /\ OnlyFvg

\* detect(df, lookback)
FvgDetect ==
    /\ \E lookback \in FvgLookbacks :
         /\ fvg_lookback' = lookback
         /\ fvg_checked' = fvg_scan(fvg_df, lookback)
         /\ fvg_found' = fvg_fvgs(fvg_df, lookback)
    /\ UNCHANGED <<fvg_df, fvg_single, notFvg>>

\* _check_fvg(df, candle_n_idx), as accumulation.py calls it
CheckFvg ==
    /\ \E candle_n_idx \in 0..(Len(fvg_df) - 1) :
         fvg_single' = <<[candle_n_idx |-> candle_n_idx,
                          result |-> check_fvg(fvg_df, candle_n_idx)]>>
    /\ UNCHANGED <<fvg_df, fvg_lookback, fvg_checked, fvg_found, notFvg>>

NextFvg ==
    \/ FvgDetect
    \/ CheckFvg

SpecFvg == InitFvg /\ [][NextFvg]_vars

\* C29: every triple (N-1, N, N+1) that detect evaluates has closed candles
\* only, N+1 is never the last, forming candle of the series; at most lookback
\* triples are evaluated; the gaps are returned newest first.
C29_ClosedTriplesNewestFirst ==
    fvg_lookback > 0 =>
        /\ \A k \in DOMAIN fvg_checked :
             fvg_checked[k] - 1 >= 0 /\ fvg_checked[k] + 1 < Len(fvg_df) - 1
        /\ Len(fvg_checked) <= fvg_lookback
        /\ \A j, k \in DOMAIN fvg_found : j < k => fvg_found[j].start > fvg_found[k].start

\* C30: _check_fvg returns None for every triple in which one of the candles
\* N-1, N, N+1 has no high-low range, and for every triple whose impulse candle
\* has a price that is not positive.
C30_DegenerateTriplesRejected ==
    \A k \in DOMAIN fvg_single :
        LET n == fvg_single[k].candle_n_idx
        IN  (n >= 1 /\ n + 1 < Len(fvg_df)) =>
              LET c_prev == At(fvg_df, n - 1)
                  c_now == At(fvg_df, n)
                  c_next == At(fvg_df, n + 1)
              IN  (\/ c_prev.high = c_prev.low
                   \/ c_now.high = c_now.low
                   \/ c_next.high = c_next.low
                   \/ c_now.low <= 0) => fvg_single[k].result = {}

====
